---------------------------- MODULE Spec2Model ----------------------------
(***************************************************************************)
(* Model of the API Gateway V2 authorizer support of ion:                  *)
(*                                                                         *)
(*   - sdk/js/src/aws/apigatewayv2.ts: apigatewayv2.authorizer(input),     *)
(*     the request-time handler that turns the user's AuthResult into the  *)
(*     IAM authorizer response;                                            *)
(*   - platform/src/components/aws/apigatewayv2-authorizer.ts: the         *)
(*     ApiGatewayV2Authorizer component, whose constructor validates the   *)
(*     lambda/jwt arguments and issues the provisioning requests.          *)
(*                                                                         *)
(* JavaScript values are tagged records, so that undefined, null, the      *)
(* empty string and objects stay distinct and the operators =default, ??,  *)
(* ?. and object spread can be modelled by what they do.  The component is *)
(* modelled for args.transform absent: transform() then hands the props    *)
(* to the resource unchanged.                                              *)
(***************************************************************************)
EXTENDS Naturals, Sequences, FiniteSets, TLC

VARIABLES
    build,      \* which revision of the SDK file is deployed
    hpc,        \* position of the protocol handler: idle/awaiting/returned/failed
    event,      \* the event of the request in progress
    calls,      \* times `input` was invoked for the request in progress
    settled,    \* how the promise of `input` settled
    response,   \* the value the handler's promise resolved with
    error,      \* the value the handler's promise rejected with
    cpc,        \* position inside the ApiGatewayV2Authorizer constructor
    args,       \* the constructor's args
    type,       \* const type      (constructor local)
    fn,         \* const fn        (constructor local)
    authorizer, \* const authorizer (constructor local)
    permission, \* const permission (constructor local)
    self,       \* the private fields function / permission / authorizer
    requests,   \* the provisioning requests issued so far, in order
    thrown,     \* the error the constructor threw
    lastRead    \* the outcome of the last accessor read

hvars == <<build, hpc, event, calls, settled, response, error>>
cvars == <<cpc, args, type, fn, authorizer, permission, self, requests,
           thrown, lastRead>>
vars == <<hvars, cvars>>

---------------------------------------------------------------------------
(* Bounds of the model.                                                    *)

\* longest caller-supplied policyDocument.Statement
MaxStatements == 2
\* the clock readings (milliseconds since the epoch) are 0..MaxNow
MaxNow == 1

---------------------------------------------------------------------------
(* JavaScript values and operators.                                        *)

Undefined == [type |-> "undefined"]
Null == [type |-> "null"]
Str(s) == [type |-> "string", value |-> s]
Arr(items) == [type |-> "array", items |-> items]
Obj(props) == [type |-> "object", props |-> props]

\* a variable that holds no value yet
None == [type |-> "none"]

\* the object literal {}
EmptyProps == [k \in {} |-> Undefined]

\* v is null or undefined
Nullish(v) == v = Undefined \/ v = Null

\* JavaScript truthiness of v, as used by `if (!v)` and `filter((e) => e)`
Truthy(v) ==
    CASE v.type = "undefined" -> FALSE
      [] v.type = "null" -> FALSE
      [] v.type = "string" -> v.value # ""
      [] v.type = "boolean" -> v.value
      [] OTHER -> TRUE

\* o.k : the property k of object o (undefined when o has no such property)
Get(o, k) == IF k \in DOMAIN o.props THEN o.props[k] ELSE Undefined

\* o?.k
OptGet(o, k) == IF Nullish(o) THEN Undefined ELSE Get(o, k)

\* a ?? b
Coalesce(a, b) == IF Nullish(a) THEN b ELSE a

\* the destructuring default  { k = d } : d replaces undefined only
WithDefault(v, d) == IF v = Undefined THEN d ELSE v

\* properties q written after properties p in one object literal
Assign(p, q) ==
    [k \in DOMAIN p \cup DOMAIN q |-> IF k \in DOMAIN q THEN q[k] ELSE p[k]]

\* the properties that ...o contributes to an object literal
SpreadProps(o) == IF Nullish(o) THEN EmptyProps ELSE o.props

---------------------------------------------------------------------------
(* sdk/js/src/aws/apigatewayv2.ts                                          *)

\* the revisions of the SDK file: src/sdk/js/src/aws/apigatewayv2.ts and
\* the later src/unnamed/part_000, part_001 (the two parts differ only in
\* the name of the flag, isAuthorized / authorized)
Builds == {"sdk", "part"}

\* new Date(now).toString(), in UTC, for the first two seconds of the
\* epoch: the text has no milliseconds, so the instants of one second print
\* alike
DateToString(now) ==
    IF now \div 1000 = 0
    THEN "Thu Jan 01 1970 00:00:00 GMT+0000 (Coordinated Universal Time)"
    ELSE "Thu Jan 01 1970 00:00:01 GMT+0000 (Coordinated Universal Time)"

\* the default of principalId in the destructuring pattern
DefaultPrincipalId(b, now) ==
    IF b = "sdk" THEN Str(DateToString(now)) ELSE Str(ToString(now))

\* Destructure without the default of principalId
DestructureNoDefault(result, b, now) ==
    [authorized |-> Get(result, "authorized"),
     principalId |-> Get(result, "principalId"),
     context |-> Get(result, "context"),
     usageIdentifierKey |-> Get(result, "usageIdentifierKey"),
     policyDocument |-> Get(result, "policyDocument")]

\* const { authorized, principalId = ..., context, usageIdentifierKey,
\*         policyDocument } = await input(event, ctx)
Destructure(result, b, now) ==
    [authorized |-> Get(result, "authorized"),
     principalId |-> WithDefault(Get(result, "principalId"),
                                 DefaultPrincipalId(b, now)),
     context |-> Get(result, "context"),
     usageIdentifierKey |-> Get(result, "usageIdentifierKey"),
     policyDocument |-> Get(result, "policyDocument")]

\* MandatoryStatement with the resource wildcarded
MandatoryStatementWildcard(effect, ev) ==
    [Action |-> "execute-api:Invoke", Effect |-> effect, Resource |-> "*"]

\* { Action: "execute-api:Invoke", Effect: effect, Resource: event.methodArn }
MandatoryStatement(effect, ev) ==
    [Action |-> "execute-api:Invoke", Effect |-> effect,
     Resource |-> ev.methodArn]

\* StatementList without the spread of the caller's statements
StatementListMandatoryOnly(effect, ev, policyDocument) ==
    <<[Action |-> "execute-api:Invoke", Effect |-> effect,
       Resource |-> ev.methodArn]>>

\* [ mandatory, ...(policyDocument?.Statement ?? []) ]
StatementList(effect, ev, policyDocument) ==
    <<MandatoryStatement(effect, ev)>>
        \o Coalesce(OptGet(policyDocument, "Statement"), Arr(<<>>)).items

\* PolicyDocument with Version written after the spread:
\* { ...policyDocument, Version: "2012-10-17", Statement: [...] }
PolicyDocumentVersionForced(effect, ev, policyDocument) ==
    Obj(Assign(Assign(SpreadProps(policyDocument),
                      [Version |-> Str("2012-10-17")]),
               [Statement |->
                   Arr(<<[Action |-> "execute-api:Invoke", Effect |-> effect,
                          Resource |-> ev.methodArn]>>
                       \o Coalesce(OptGet(policyDocument, "Statement"),
                                   Arr(<<>>)).items)]))

\* { Version: "2012-10-17", ...policyDocument, Statement: [...] }
PolicyDocument(effect, ev, policyDocument) ==
    Obj(Assign(Assign([Version |-> Str("2012-10-17")],
                      SpreadProps(policyDocument)),
               [Statement |-> Arr(StatementList(effect, ev, policyDocument))]))

\* the object returned under  if (!authorized)
DenyResponse(l, ev) ==
    [principalId |-> l.principalId,
     policyDocument |-> PolicyDocument("Deny", ev, l.policyDocument),
     context |-> l.context,
     usageIdentifierKey |-> l.usageIdentifierKey]

\* the object returned otherwise
AllowResponse(l, ev, now) ==
    [principalId |-> Coalesce(l.principalId, Str(DateToString(now))),
     policyDocument |-> PolicyDocument("Allow", ev, l.policyDocument),
     context |-> l.context,
     usageIdentifierKey |-> l.usageIdentifierKey]

\* the body of the handler after the await, for a fulfilled promise
Respond(result, ev, b, now) ==
    LET l == Destructure(result, b, now)
    IN  IF ~Truthy(l.authorized)
        THEN DenyResponse(l, ev)
        ELSE AllowResponse(l, ev, now)

\* AfterAwait with the rejection caught and answered by a Deny response
AfterAwaitCatchDeny(outcome, ev, b, now) ==
    IF outcome.state = "rejected"
    THEN [state |-> "fulfilled",
          value |-> [principalId |-> Str(DateToString(now)),
                     policyDocument |->
                        Obj([Version |-> Str("2012-10-17"),
                             Statement |-> Arr(<<[Action |-> "execute-api:Invoke",
                                                  Effect |-> "Deny",
                                                  Resource |-> ev.methodArn]>>)]),
                     context |-> Undefined,
                     usageIdentifierKey |-> Undefined]]
    ELSE [state |-> "fulfilled",
          value |-> LET l == [authorized |-> Get(outcome.value, "authorized")]
                    IN  [principalId |-> Str(DateToString(now)),
                         policyDocument |->
                            Obj([Version |-> Str("2012-10-17"),
                                 Statement |-> Arr(<<[Action |-> "execute-api:Invoke",
                                                      Effect |-> IF Truthy(l.authorized)
                                                                 THEN "Allow" ELSE "Deny",
                                                      Resource |-> ev.methodArn]>>)]),
                         context |-> Undefined,
                         usageIdentifierKey |-> Undefined]]

\* await input(event, ctx): a rejection is rethrown out of the async
\* handler, a fulfilment continues with the rest of the body
AfterAwait(outcome, ev, b, now) ==
    IF outcome.state = "rejected"
    THEN [state |-> "rejected", reason |-> outcome.reason]
    ELSE [state |-> "fulfilled", value |-> Respond(outcome.value, ev, b, now)]

(* The inputs of the handler. *)

Events ==
    {[methodArn |-> "arn:aws:execute-api:us-east-1:123456789012:api/prod/GET/items"],
     [methodArn |-> "arn:aws:execute-api:us-east-1:123456789012:api/prod/POST/items"]}

StatementFragments ==
    {[Action |-> "execute-api:Invoke", Effect |-> "Allow", Resource |-> "*"],
     [Action |-> "s3:GetObject", Effect |-> "Deny",
      Resource |-> "arn:aws:s3:::bucket/*"]}

StatementSeqs ==
    UNION {[1..n -> StatementFragments] : n \in 0..MaxStatements}

\* every record over a subset of the keys of choices
Optional(choices) ==
    UNION {{f \in [ks -> UNION {choices[k] : k \in ks}] :
                \A k \in ks : f[k] \in choices[k]} : ks \in SUBSET DOMAIN choices}

PolicyDocuments ==
    {Undefined} \cup
    {Obj(p) : p \in Optional(
        [Version |-> {Str("2012-10-17"), Str("2008-10-17")},
         Statement |-> {Arr(s) : s \in StatementSeqs}])}

Bool(b) == [type |-> "boolean", value |-> b]

\* the values a user handler can resolve with
AuthResults ==
    {Obj(Assign([authorized |-> Bool(a)], p)) :
        a \in BOOLEAN,
        p \in Optional(
            [principalId |-> {Null, Str(""), Str("u1")},
             context |-> {Obj([userId |-> Str("123456789012")])},
             usageIdentifierKey |-> {Str("plan-key")},
             policyDocument |-> PolicyDocuments \ {Undefined}])}

Errors == {"Error: token expired", "TypeError: fetch failed"}

HandlerInit ==
    /\ build \in Builds
    /\ hpc = "idle"
    /\ event = None
    /\ calls = 0
    /\ settled = None
    /\ response = None
    /\ error = None

\* the gateway invokes the handler: it runs up to `await input(event, ctx)`
Invoke(ev) ==
    /\ hpc \in {"idle", "returned", "failed"}
    /\ hpc' = "awaiting"
    /\ event' = ev
    /\ calls' = 1
    /\ settled' = None
    /\ response' = None
    /\ error' = None
    /\ UNCHANGED <<build, cvars>>

\* input resolves with an AuthResult and the handler runs to its end
InputResolves ==
    /\ hpc = "awaiting"
    /\ \E result \in AuthResults, now \in 0..MaxNow :
         LET outcome == [state |-> "fulfilled", value |-> result]
             r == AfterAwait(outcome, event, build, now)
         IN  /\ settled' = outcome
             /\ IF r.state = "rejected"
                THEN hpc' = "failed" /\ error' = r.reason /\ response' = None
                ELSE hpc' = "returned" /\ response' = r.value /\ error' = None
    /\ UNCHANGED <<build, event, calls, cvars>>

\* input throws, or its promise rejects, and the handler runs to its end
InputRejects ==
    /\ hpc = "awaiting"
    /\ \E e \in Errors, now \in 0..MaxNow :
         LET outcome == [state |-> "rejected", reason |-> e]
             r == AfterAwait(outcome, event, build, now)
         IN  /\ settled' = outcome
             /\ IF r.state = "rejected"
                THEN hpc' = "failed" /\ error' = r.reason /\ response' = None
                ELSE hpc' = "returned" /\ response' = r.value /\ error' = None
    /\ UNCHANGED <<build, event, calls, cvars>>

HandlerInvoked == \E ev \in Events : Invoke(ev)

HandlerNext ==
    \/ HandlerInvoked
    \/ InputResolves
    \/ InputRejects

---------------------------------------------------------------------------
(* platform/src/components/aws/apigatewayv2-authorizer.ts                  *)

\* new VisibleError(message)
VisibleError(message) == [type |-> "VisibleError", message |-> message]

\* a live resource handle returned by the provisioning layer
Resource(kind, outputs) == [type |-> "resource", kind |-> kind, outputs |-> outputs]

\* validateSingleAuthorizer() without the check for more than one mode
ValidateSingleAuthorizerNoUpper(a) ==
    IF Len(SelectSeq(<<a.lambda, a.jwt>>, Truthy)) = 0
    THEN [type |-> "VisibleError",
          message |-> "Please provide one of \"lambda\" or \"jwt\" for the "
                      \o a.name \o " authorizer."]
    ELSE None

\* validateSingleAuthorizer(): the error it throws, or None
ValidateSingleAuthorizer(a) ==
    LET authorizers == SelectSeq(<<a.lambda, a.jwt>>, Truthy)
    IN  IF Len(authorizers) = 0
        THEN VisibleError("Please provide one of \"lambda\" or \"jwt\" for the "
                          \o a.name \o " authorizer.")
        ELSE IF Len(authorizers) > 1
        THEN VisibleError("Please provide only one of \"lambda\" or \"jwt\" for the "
                          \o a.name \o " authorizer.")
        ELSE None

\* getType() with the two literals exchanged
GetTypeSwapped(a) ==
    IF Truthy(a.jwt) THEN Str("REQUEST")
    ELSE IF Truthy(a.lambda) THEN Str("JWT")
    ELSE [type |-> "VisibleError",
          message |-> "Please provide one of \"lambda\" or \"jwt\" for the "
                      \o a.name \o " authorizer."]

\* getType(): the type it returns, or the error it throws
GetType(a) ==
    IF Truthy(a.jwt) THEN Str("JWT")
    ELSE IF Truthy(a.lambda) THEN Str("REQUEST")
    ELSE VisibleError("Please provide one of \"lambda\" or \"jwt\" for the "
                      \o a.name \o " authorizer.")

\* Function.fromDefinition(name, definition, override): the handle of the
\* function the provisioning layer created under the physical name phys
FunctionFromDefinition(name, definition, override, phys) ==
    Resource("function",
        [arn |-> "arn:aws:lambda:us-east-1:123456789012:function:" \o phys,
         nodes |-> [function |-> [invokeArn |->
            "arn:aws:apigateway:us-east-1:lambda:path/2015-03-31/functions/"
            \o "arn:aws:lambda:us-east-1:123456789012:function:" \o phys
            \o "/invocations"]]])

\* createFunction(): the request it issues (None when it returns early)
CreateFunctionRequest(name, a) ==
    IF ~Truthy(a.lambda) THEN None
    ELSE [kind |-> "function",
          name |-> name \o "LambdaAuthorizerFn",
          props |-> [definition |-> a.lambda,
                     description |-> a.api.name \o " authorizer function"]]

\* the props of new apigatewayv2.Authorizer(...) in createAuthorizer()
AuthorizerProps(a, t, f) ==
    [apiId |-> a.api.id,
     authorizerType |-> t,
     identitySources |->
        IF Truthy(a.jwt)
        THEN Arr(<<Coalesce(Get(a.jwt, "identitySource"),
                            Str("$request.header.Authorization"))>>)
        ELSE Undefined,
     jwtConfiguration |->
        IF Truthy(a.jwt)
        THEN Obj([audiences |-> Get(a.jwt, "audiences"),
                  issuer |-> Get(a.jwt, "issuer")])
        ELSE Undefined,
     authorizerUri |->
        IF Nullish(f) THEN Undefined
        ELSE Str(f.outputs.nodes.function.invokeArn),
     authorizerPayloadFormatVersion |-> Str("1.0")]

\* createAuthorizer(): the request it issues
CreateAuthorizerRequest(name, a, t, f) ==
    [kind |-> "authorizer",
     name |-> name \o "Authorizer",
     props |-> AuthorizerProps(a, t, f)]

\* the permission scoped to the whole API instead of the authorizer
PermissionPropsWholeApi(a, f, auth) ==
    [action |-> "lambda:InvokeFunction",
     function |-> f.outputs.arn,
     principal |-> "apigateway.amazonaws.com",
     sourceArn |-> a.api.executionArn \o "/*"]

\* the props of new lambda.Permission(...) in createPermission()
PermissionProps(a, f, auth) ==
    [action |-> "lambda:InvokeFunction",
     function |-> f.outputs.arn,
     principal |-> "apigateway.amazonaws.com",
     sourceArn |-> a.api.executionArn \o "/authorizers/" \o auth.outputs.id]

\* createPermission(): the request it issues (None when it returns early)
CreatePermissionRequest(name, a, f, auth) ==
    IF ~Truthy(f) THEN None
    ELSE [kind |-> "permission",
          name |-> name \o "Permission",
          props |-> PermissionProps(a, f, auth)]

\* the constructor with createFunction() called ahead of the validation
ConstructorBodyFunctionFirst ==
    <<"createFunction", "validateSingleAuthorizer", "getType",
      "createAuthorizer", "createPermission", "assign">>

\* the statements of the constructor after super() and output(args.api),
\* in the order they are written
ConstructorBody ==
    <<"validateSingleAuthorizer", "getType", "createFunction",
      "createAuthorizer", "createPermission", "assign">>

\* the position after statement s of the constructor
StepAfter(s) ==
    LET i == CHOOSE k \in 1..Len(ConstructorBody) : ConstructorBody[k] = s
    IN  IF i = Len(ConstructorBody) THEN "constructed"
        ELSE ConstructorBody[i + 1]

\* get id()
GetId(me) == [state |-> "returned", value |-> me.authorizer.outputs.id]

\* get nodes().authorizer
GetNodesAuthorizer(me) == [state |-> "returned", value |-> me.authorizer]

\* get nodes().function without the guard
GetNodesFunctionUnchecked(me) == [state |-> "returned", value |-> me.function]

\* get nodes().function (the message is written without its backquotes)
GetNodesFunction(me) ==
    IF ~Truthy(me.function)
    THEN [state |-> "threw", value |-> VisibleError(
            "Cannot access nodes.function because the data source does not use a Lambda function.")]
    ELSE [state |-> "returned", value |-> me.function]

\* get nodes().permission
GetNodesPermission(me) ==
    IF ~Truthy(me.permission)
    THEN [state |-> "threw", value |-> VisibleError(
            "Cannot access nodes.permission because the data source does not use a Lambda function.")]
    ELSE [state |-> "returned", value |-> me.permission]

(* The inputs of the constructor. *)

\* the name the component is created under
ComponentName == "MyApiAuthorizerJwtAuth"

Apis ==
    {[id |-> "a1b2c3", name |-> "MyApi",
      executionArn |-> "arn:aws:execute-api:us-east-1:123456789012:a1b2c3"],
     [id |-> "d4e5f6", name |-> "MySocket",
      executionArn |-> "arn:aws:execute-api:us-east-1:123456789012:d4e5f6"]}

Lambdas == {Undefined, Str("src/authorizer.handler")}

Jwts ==
    {Undefined,
     Obj([issuer |-> Str("https://issuer.example.com"),
          audiences |-> Arr(<<Str("client-1")>>)]),
     Obj([issuer |-> Str("https://issuer.example.com"),
          audiences |-> Arr(<<Str("client-1")>>),
          identitySource |-> Str("$request.header.AccessToken")])}

AuthorizerArgs ==
    {[name |-> "jwtAuth", api |-> api, lambda |-> l, jwt |-> j] :
        api \in Apis, l \in Lambdas, j \in Jwts}

\* the identifiers the provisioning layer assigns
AuthorizerIds == {"auth01", "auth02"}
FunctionNames == {"MyApiAuthorizerFn-aaaa", "MyApiAuthorizerFn-bbbb"}

ConfigInit ==
    /\ cpc = "new"
    /\ args = None
    /\ type = None
    /\ fn = None
    /\ authorizer = None
    /\ permission = None
    /\ self = None
    /\ requests = <<>>
    /\ thrown = None
    /\ lastRead = None

\* new ApiGatewayV2Authorizer(name, args): super(), self, output(args.api)
Construct ==
    /\ cpc = "new"
    /\ \E a \in AuthorizerArgs : args' = a
    /\ cpc' = ConstructorBody[1]
    /\ UNCHANGED <<type, fn, authorizer, permission, self, requests, thrown,
                   lastRead, hvars>>

\* validateSingleAuthorizer();
RunValidateSingleAuthorizer ==
    /\ cpc = "validateSingleAuthorizer"
    /\ LET e == ValidateSingleAuthorizer(args)
       IN  IF e # None
           THEN cpc' = "threw" /\ thrown' = e
           ELSE cpc' = StepAfter(cpc) /\ UNCHANGED thrown
    /\ UNCHANGED <<args, type, fn, authorizer, permission, self, requests,
                   lastRead, hvars>>

\* const type = getType();
RunGetType ==
    /\ cpc = "getType"
    /\ LET t == GetType(args)
       IN  IF t.type = "VisibleError"
           THEN cpc' = "threw" /\ thrown' = t /\ UNCHANGED type
           ELSE cpc' = StepAfter(cpc) /\ type' = t /\ UNCHANGED thrown
    /\ UNCHANGED <<args, fn, authorizer, permission, self, requests,
                   lastRead, hvars>>

\* const fn = createFunction();
RunCreateFunction ==
    /\ cpc = "createFunction"
    /\ LET r == CreateFunctionRequest(ComponentName, args)
       IN  IF r = None
           THEN fn' = Undefined /\ UNCHANGED requests
           ELSE \E phys \in FunctionNames :
                  LET h == FunctionFromDefinition(r.name, r.props.definition,
                                                  r.props, phys)
                  IN  /\ fn' = h
                      /\ requests' = Append(requests, [request |-> r, result |-> h])
    /\ cpc' = StepAfter(cpc)
    /\ UNCHANGED <<args, type, authorizer, permission, self, thrown,
                   lastRead, hvars>>

\* const authorizer = createAuthorizer();
RunCreateAuthorizer ==
    /\ cpc = "createAuthorizer"
    /\ \E id \in AuthorizerIds :
         LET r == CreateAuthorizerRequest(ComponentName, args, type, fn)
             h == Resource("authorizer", [id |-> id])
         IN  /\ authorizer' = h
             /\ requests' = Append(requests, [request |-> r, result |-> h])
    /\ cpc' = StepAfter(cpc)
    /\ UNCHANGED <<args, type, fn, permission, self, thrown, lastRead, hvars>>

\* const permission = createPermission();
RunCreatePermission ==
    /\ cpc = "createPermission"
    /\ LET r == CreatePermissionRequest(ComponentName, args, fn, authorizer)
       IN  IF r = None
           THEN permission' = Undefined /\ UNCHANGED requests
           ELSE LET h == Resource("permission", [id |-> r.name])
                IN  /\ permission' = h
                    /\ requests' = Append(requests, [request |-> r, result |-> h])
    /\ cpc' = StepAfter(cpc)
    /\ UNCHANGED <<args, type, fn, authorizer, self, thrown, lastRead, hvars>>

\* this.function = fn; this.permission = permission; this.authorizer = authorizer;
RunAssign ==
    /\ cpc = "assign"
    /\ self' = [function |-> fn, permission |-> permission,
                authorizer |-> authorizer]
    /\ cpc' = StepAfter(cpc)
    /\ UNCHANGED <<args, type, fn, authorizer, permission, requests, thrown,
                   lastRead, hvars>>

\* a caller reads component.id
ReadId ==
    /\ cpc = "constructed"
    /\ lastRead' = [accessor |-> "id", outcome |-> GetId(self)]
    /\ UNCHANGED <<cpc, args, type, fn, authorizer, permission, self,
                   requests, thrown, hvars>>

\* a caller reads component.nodes.authorizer
ReadNodesAuthorizer ==
    /\ cpc = "constructed"
    /\ lastRead' = [accessor |-> "nodes.authorizer",
                    outcome |-> GetNodesAuthorizer(self)]
    /\ UNCHANGED <<cpc, args, type, fn, authorizer, permission, self,
                   requests, thrown, hvars>>

\* a caller reads component.nodes.function
ReadNodesFunction ==
    /\ cpc = "constructed"
    /\ lastRead' = [accessor |-> "nodes.function",
                    outcome |-> GetNodesFunction(self)]
    /\ UNCHANGED <<cpc, args, type, fn, authorizer, permission, self,
                   requests, thrown, hvars>>

\* a caller reads component.nodes.permission
ReadNodesPermission ==
    /\ cpc = "constructed"
    /\ lastRead' = [accessor |-> "nodes.permission",
                    outcome |-> GetNodesPermission(self)]
    /\ UNCHANGED <<cpc, args, type, fn, authorizer, permission, self,
                   requests, thrown, hvars>>

ConfigNext ==
    \/ Construct
    \/ RunValidateSingleAuthorizer
    \/ RunGetType
    \/ RunCreateFunction
    \/ RunCreateAuthorizer
    \/ RunCreatePermission
    \/ RunAssign
    \/ ReadId
    \/ ReadNodesAuthorizer
    \/ ReadNodesFunction
    \/ ReadNodesPermission

Init == HandlerInit /\ ConfigInit

Next == HandlerNext \/ ConfigNext

\* the request-time handler alone
SpecHandler == Init /\ [][HandlerNext]_vars

\* the provisioning-time component alone
SpecComponent == Init /\ [][ConfigNext]_vars

\* both together
Spec == Init /\ [][Next]_vars

---------------------------------------------------------------------------
(* Properties of the request-time handler (checked under SpecHandler).     *)

\* the AuthResult the user handler resolved with, once the handler returned
Returned == hpc = "returned"
Decision == settled.value
CallerDocument == Get(Decision, "policyDocument")
CallerStatements ==
    Coalesce(OptGet(CallerDocument, "Statement"), Arr(<<>>)).items
CallerPrincipalId == Get(Decision, "principalId")
ResponseStatements == response.policyDocument.props["Statement"].items

\* C1: whenever the handler returns, Statement[0] of the response is exactly
\* {Action: "execute-api:Invoke", Effect: E, Resource: event.methodArn},
\* with E = "Allow" when authorized is true and "Deny" when it is false,
\* whatever else the AuthResult carries.
C1_MandatoryStatementFirst ==
    Returned =>
        /\ "Statement" \in DOMAIN response.policyDocument.props
        /\ Len(ResponseStatements) >= 1
        /\ ResponseStatements[1] =
             [Action |-> "execute-api:Invoke",
              Effect |-> IF Decision.props["authorized"].value
                         THEN "Allow" ELSE "Deny",
              Resource |-> event.methodArn]

\* a denied request whose caller document opens with its own Allow statement
C1_Witness ==
    /\ Returned
    /\ ~Decision.props["authorized"].value
    /\ Len(CallerStatements) = MaxStatements
    /\ CallerStatements[1].Effect = "Allow"
    /\ "Version" \in DOMAIN CallerDocument.props
    /\ ResponseStatements[1].Effect = "Deny"

\* C3 as stated: whenever the handler returns, policyDocument.Version of
\* the response is "2012-10-17", also when the caller's policyDocument
\* carries another Version.
C3_VersionAlwaysFixed ==
    Returned => Get(response.policyDocument, "Version") = Str("2012-10-17")

\* C3 amended: whenever the handler returns, policyDocument.Version of the
\* response is the Version of the caller's policyDocument when that document
\* carries one, and "2012-10-17" when it does not (or there is no document).
C3_VersionDefaulted ==
    Returned =>
        Get(response.policyDocument, "Version") =
            WithDefault(OptGet(CallerDocument, "Version"), Str("2012-10-17"))

\* an allowed request whose caller document says Version 2008-10-17
C3_Witness ==
    /\ Returned
    /\ Decision.props["authorized"].value
    /\ OptGet(CallerDocument, "Version") = Str("2008-10-17")
    /\ Get(response.policyDocument, "Version") = Str("2008-10-17")

\* C4 as stated: whenever the handler returns, on both paths: a non-empty
\* principalId of the caller is returned as it is, and when the caller's
\* principalId is absent or empty the response's principalId is a
\* non-empty string.
C4_PrincipalIdNeverEmpty ==
    Returned =>
        /\ (CallerPrincipalId.type = "string" /\ CallerPrincipalId.value # "")
                => response.principalId = CallerPrincipalId
        /\ (CallerPrincipalId = Undefined \/ CallerPrincipalId = Str(""))
                => /\ response.principalId.type = "string"
                   /\ response.principalId.value # ""

\* C4 amended: whenever the handler returns, on both paths: a principalId
\* the caller supplied as a string is returned as it is, the empty string
\* included; an absent principalId is replaced by a non-empty string.
C4_PrincipalIdDefaulted ==
    Returned =>
        /\ CallerPrincipalId.type = "string"
                => response.principalId = CallerPrincipalId
        /\ CallerPrincipalId = Undefined
                => /\ response.principalId.type = "string"
                   /\ response.principalId.value # ""

\* a denied request without principalId, answered with a synthesized one
C4_Witness ==
    /\ Returned
    /\ ~Decision.props["authorized"].value
    /\ CallerPrincipalId = Undefined
    /\ response.principalId.type = "string"
    /\ response.principalId.value # ""

\* C5: whenever the handler returns, with N the length of the caller's
\* policyDocument.Statement (0 when absent), the response's Statement has
\* length N+1 and its element i+1 is the caller's element i, for i in 1..N.
C5_CallerStatementsAppended ==
    Returned =>
        /\ Len(ResponseStatements) = Len(CallerStatements) + 1
        /\ \A i \in 1..Len(CallerStatements) :
               ResponseStatements[i + 1] = CallerStatements[i]

\* a caller document with the longest list, of two different statements
C5_Witness ==
    /\ Returned
    /\ Len(CallerStatements) = MaxStatements
    /\ CallerStatements[1] # CallerStatements[MaxStatements]
    /\ Len(ResponseStatements) = MaxStatements + 1

\* C8: when the user handler throws or rejects, the handler's invocation
\* fails with that same error and produces no response, and the user
\* handler was invoked once for the request.
C8_RejectionPropagates ==
    (settled # None /\ settled.state = "rejected") =>
        /\ hpc = "failed"
        /\ response = None
        /\ error = settled.reason
        /\ calls = 1

\* the user handler rejected and the invocation failed
C8_Witness ==
    /\ settled # None
    /\ settled.state = "rejected"
    /\ hpc = "failed"
    /\ error = "Error: token expired"

---------------------------------------------------------------------------
(* Properties of the component (checked under SpecComponent).              *)

\* the modes of args that are populated
Populated == {m \in {"lambda", "jwt"} : args[m] # Undefined}
Validated == cpc \notin {"new", "validateSingleAuthorizer"}
Kinds == [i \in 1..Len(requests) |-> requests[i].request.kind]
Requested(kind) == \E i \in 1..Len(requests) : Kinds[i] = kind

\* C2: once validation has run, the constructor has failed with a
\* VisibleError exactly when the number of populated modes among
\* {lambda, jwt} is not one.
C2_ExactlyOneMode ==
    Validated =>
        ((cpc = "threw" /\ thrown.type = "VisibleError")
            <=> Cardinality(Populated) # 1)

\* both modes populated, and the constructor threw
C2_Witness ==
    /\ cpc = "threw"
    /\ Populated = {"lambda", "jwt"}
    /\ thrown.type = "VisibleError"

\* C6: for every constructed component, the type is REQUEST exactly when a
\* backing function was created, the permission was created exactly when
\* the function was, the type is JWT exactly when neither was, and the type
\* is one of the two.
C6_TypeMatchesArtifacts ==
    cpc = "constructed" =>
        /\ type \in {Str("REQUEST"), Str("JWT")}
        /\ (type = Str("REQUEST")) <=> Requested("function")
        /\ Requested("permission") <=> Requested("function")
        /\ (type = Str("JWT"))
                <=> (~Requested("function") /\ ~Requested("permission"))
        /\ (self.function # Undefined) <=> Requested("function")
        /\ (self.permission # Undefined) <=> Requested("permission")
        /\ \A i \in 1..Len(requests) :
               Kinds[i] = "authorizer"
                    => requests[i].request.props.authorizerType = type

\* a constructed component of type REQUEST with function and permission
C6_Witness ==
    /\ cpc = "constructed"
    /\ type = Str("REQUEST")
    /\ Requested("function")
    /\ Requested("permission")

\* C7: on a component built with only jwt, reading nodes.function or
\* nodes.permission fails with an error while id and nodes.authorizer are
\* returned; on a component built with only lambda, nodes.function and
\* nodes.permission return the artifacts that were created.
C7_Accessors ==
    lastRead # None =>
        /\ lastRead.accessor = "id"
                => lastRead.outcome =
                     [state |-> "returned", value |-> authorizer.outputs.id]
        /\ lastRead.accessor = "nodes.authorizer"
                => lastRead.outcome =
                     [state |-> "returned", value |-> authorizer]
        /\ (Populated = {"jwt"}
                /\ lastRead.accessor \in {"nodes.function", "nodes.permission"})
                => /\ lastRead.outcome.state = "threw"
                   /\ lastRead.outcome.value.type = "VisibleError"
        /\ (Populated = {"lambda"} /\ lastRead.accessor = "nodes.function")
                => lastRead.outcome =
                     [state |-> "returned", value |-> requests[1].result]
        /\ (Populated = {"lambda"} /\ lastRead.accessor = "nodes.permission")
                => lastRead.outcome =
                     [state |-> "returned", value |-> requests[3].result]

\* nodes.function was read on a jwt component, and the read threw
C7_Witness ==
    /\ lastRead # None
    /\ Populated = {"jwt"}
    /\ lastRead.accessor = "nodes.function"
    /\ lastRead.outcome.state = "threw"

\* C9: whenever the constructor has failed with a configuration error, no
\* backing function, authorizer registration or permission was requested.
C9_ValidationBeforeProvisioning ==
    cpc = "threw" => requests = <<>>

\* the constructor threw for args with no mode populated
C9_Witness ==
    /\ cpc = "threw"
    /\ Populated = {}
    /\ requests = <<>>

\* s is an initial part of t
IsPrefix(s, t) ==
    Len(s) <= Len(t) /\ \A i \in 1..Len(s) : s[i] = t[i]

\* C10: with only lambda populated the requests are issued in the order
\* function, authorizer, permission; the authorizer's authorizerUri is the
\* invoke ARN of that function; the permission lets apigateway.amazonaws.com
\* invoke that function with source ARN api.executionArn + "/authorizers/" +
\* the id of the authorizer just registered. With only jwt populated the
\* authorizer alone is requested, without authorizerUri.
C10_ProvisioningOrder ==
    /\ (Validated /\ Populated = {"lambda"}) =>
        /\ IsPrefix(Kinds, <<"function", "authorizer", "permission">>)
        /\ cpc \in {"assign", "constructed"} => Len(requests) = 3
        /\ Len(requests) >= 2 =>
             requests[2].request.props.authorizerUri =
                Str(requests[1].result.outputs.nodes.function.invokeArn)
        /\ Len(requests) >= 3 =>
             /\ requests[3].request.props.principal = "apigateway.amazonaws.com"
             /\ requests[3].request.props.action = "lambda:InvokeFunction"
             /\ requests[3].request.props.function =
                    requests[1].result.outputs.arn
             /\ requests[3].request.props.sourceArn =
                    args.api.executionArn \o "/authorizers/"
                        \o requests[2].result.outputs.id
    /\ (Validated /\ Populated = {"jwt"}) =>
        /\ IsPrefix(Kinds, <<"authorizer">>)
        /\ cpc \in {"createPermission", "assign", "constructed"}
                => Len(requests) = 1
        /\ Len(requests) >= 1 =>
             requests[1].request.props.authorizerUri = Undefined

\* a lambda component whose three requests were issued, the authorizer
\* having been registered under the second of the ids
C10_Witness ==
    /\ cpc = "constructed"
    /\ Populated = {"lambda"}
    /\ Kinds = <<"function", "authorizer", "permission">>
    /\ requests[2].result.outputs.id = "auth02"

=============================================================================
